---- MODULE Spec2Model ----
(***************************************************************************)
(* Model of the analytics service of nanalytics-cvm: the SQLite store     *)
(* (sites, visits, page_stats), the service operations registerSite,      *)
(* recordVisit, getSiteStats, updateSiteByOwner and deleteSiteByOwner,    *)
(* and the input normalizers they use.                                     *)
(*                                                                         *)
(* Several server processes may share the database file, so an operation  *)
(* that issues more than one SQL statement is split where another         *)
(* process's statement can come in between: the findSite lookup (with the *)
(* checks that follow it before the next statement) is one step, the      *)
(* write statement or transaction is the next.  A single process runs     *)
(* each handler synchronously, which is the case where the second step    *)
(* directly follows the first.                                             *)
(*                                                                         *)
(* Text that the code processes (page path, device label, user agent,     *)
(* event id) is a sequence of one-character strings.  Text that the code  *)
(* only compares or stores (site uuid, name, token) is a TLA+ string.     *)
(***************************************************************************)
EXTENDS Integers, Sequences, FiniteSets, TLC

\* ------------------------------------------------------------------ bounds
MaxClock == 1
MaxSiteRows == 2
MaxVisitRows == 2
MaxDay == 1

\* ------------------------------------------------------------------ nulls
\* SQL NULL / JS null for stored-or-compared strings, for processed text and
\* for timestamps (each of the type of the values it stands among).
NULL == "NULL"
NullText == <<"NULL">>
NullTime == 0 - 1

\* ------------------------------------------------------------ text helpers
UpperChars == <<"A","B","C","D","E","F","G","H","I","J","K","L","M",
                "N","O","P","Q","R","S","T","U","V","W","X","Y","Z">>
LowerChars == <<"a","b","c","d","e","f","g","h","i","j","k","l","m",
                "n","o","p","q","r","s","t","u","v","w","x","y","z">>

toLowerChar(c) ==
    IF \E i \in DOMAIN UpperChars : UpperChars[i] = c
    THEN LowerChars[CHOOSE i \in DOMAIN UpperChars : UpperChars[i] = c]
    ELSE c

toLowerCase(s) == [i \in 1..Len(s) |-> toLowerChar(s[i])]

IsWhiteSpace(c) == c \in {" ", "\t", "\n"}

trim(s) ==
    LET keep == {i \in 1..Len(s) : ~IsWhiteSpace(s[i])}
    IN  IF keep = {} THEN <<>>
        ELSE LET lo == CHOOSE i \in keep : \A j \in keep : i <= j
                 hi == CHOOSE i \in keep : \A j \in keep : i >= j
             IN  SubSeq(s, lo, hi)

startsWith(s, p) == Len(s) >= Len(p) /\ SubSeq(s, 1, Len(p)) = p

includes(s, sub) ==
    \E i \in 0..(Len(s) - Len(sub)) : SubSeq(s, i + 1, i + Len(sub)) = sub

\* JS truthiness of an optional string: null, undefined and "" are falsy.
Truthy(s) == s # NullText /\ s # <<>>
OrEmpty(s) == IF Truthy(s) THEN s ELSE <<>>

\* ------------------------------------------------------ normalizeDeviceType
desktop == <<"d","e","s","k","t","o","p">>
mobile == <<"m","o","b","i","l","e">>
tablet == <<"t","a","b","l","e","t">>
other == <<"o","t","h","e","r">>
ipad == <<"i","p","a","d">>
DEVICE_TYPES == <<desktop, mobile, tablet, other>>
DeviceTypeSet == {DEVICE_TYPES[i] : i \in DOMAIN DEVICE_TYPES}

\* The user-agent heuristics ahead of the label.
normalizeDeviceType_UaFirst(deviceType, userAgent) ==
    LET input == trim(toLowerCase(OrEmpty(deviceType)))
        ua == toLowerCase(OrEmpty(userAgent))
    IN  IF includes(ua, mobile) THEN mobile
        ELSE IF includes(ua, tablet) \/ includes(ua, ipad) THEN tablet
        ELSE IF input \in DeviceTypeSet THEN input
        ELSE IF ua # <<>> THEN desktop
        ELSE other

normalizeDeviceType(deviceType, userAgent) ==
    LET input == trim(toLowerCase(OrEmpty(deviceType)))
        ua == toLowerCase(OrEmpty(userAgent))
    IN  IF input \in DeviceTypeSet THEN input
        ELSE IF includes(ua, mobile) THEN mobile
        ELSE IF includes(ua, tablet) \/ includes(ua, ipad) THEN tablet
        ELSE IF ua # <<>> THEN desktop
        ELSE other

\* -------------------------------------------------------- normalizePagePath
\* new URL(input) and new URL(input, "http://placeholder") as far as the
\* pathname goes: scheme detection, special schemes, authority, relative
\* references, "?"/"#" terminators, dot segments, "\" as a separator of
\* special schemes, and the percent-encoding of a space.  Not modelled: IPv4
\* and IPv6 host parsing, tabs and newlines inside the input, percent-encoded
\* dot segments, Windows drive letters of file URLs.
Http == <<"h","t","t","p">>
Https == <<"h","t","t","p","s">>
SpecialSchemes == {Http, Https, <<"w","s">>, <<"w","s","s">>, <<"f","t","p">>,
                   <<"f","i","l","e">>}
DigitChars == {"0","1","2","3","4","5","6","7","8","9"}
IsAlpha(c) == \E i \in DOMAIN LowerChars : LowerChars[i] = c \/ UpperChars[i] = c
SchemeChars ==
    {LowerChars[i] : i \in DOMAIN LowerChars} \cup {UpperChars[i] : i \in DOMAIN UpperChars}
        \cup DigitChars \cup {"+", "-", "."}
ForbiddenHostChars == {" ", "#", "/", ":", "<", ">", "?", "@", "[", "\\", "]",
                       "^", "|", "%"}

\* Index of the first character of s, from position from on, that satisfies
\* the set; Len(s) + 1 when there is none.
FirstIn(s, from, set) ==
    LET hits == {i \in from..Len(s) : s[i] \in set}
    IN  IF hits = {} THEN Len(s) + 1
        ELSE CHOOSE i \in hits : \A j \in hits : i <= j

FirstNotIn(s, from, set) ==
    LET hits == {i \in from..Len(s) : s[i] \notin set}
    IN  IF hits = {} THEN Len(s) + 1
        ELSE CHOOSE i \in hits : \A j \in hits : i <= j

Tail2(s, from) == IF from > Len(s) THEN <<>> ELSE SubSeq(s, from, Len(s))

\* Position of the ":" that ends a scheme, or 0 when the input has no scheme.
SchemeEnd(s) ==
    IF s = <<>> \/ ~IsAlpha(s[1]) THEN 0
    ELSE LET k == FirstNotIn(s, 1, SchemeChars)
         IN  IF k <= Len(s) /\ s[k] = ":" THEN k ELSE 0

UrlFailure == [ok |-> FALSE, pathname |-> <<>>]
UrlOk(p) == [ok |-> TRUE, pathname |-> p]

PathSeps(special) == IF special THEN {"/", "\\"} ELSE {"/"}

\* The segments of t: the text between separators, the last one ended by the
\* end of the text.
RECURSIVE SplitSegments(_, _)
SplitSegments(t, seps) ==
    LET k == FirstIn(t, 1, seps)
    IN  IF k > Len(t) THEN <<t>>
        ELSE <<SubSeq(t, 1, k - 1)>> \o SplitSegments(Tail2(t, k + 1), seps)

RECURSIVE PercentEncode(_)
PercentEncode(seg) ==
    IF seg = <<>> THEN <<>>
    ELSE (IF Head(seg) = " " THEN <<"%","2","0">> ELSE <<Head(seg)>>)
         \o PercentEncode(Tail(seg))

\* The path state: fold the segments into the URL's path.
RECURSIVE PathFold(_, _, _)
PathFold(segs, i, path) ==
    IF i > Len(segs) THEN path
    ELSE LET buf == segs[i]
             last == (i = Len(segs))
             shortened == IF path = <<>> THEN path ELSE SubSeq(path, 1, Len(path) - 1)
         IN  IF buf = <<".", ".">>
             THEN PathFold(segs, i + 1, IF last THEN Append(shortened, <<>>) ELSE shortened)
             ELSE IF buf = <<".">>
             THEN PathFold(segs, i + 1, IF last THEN Append(path, <<>>) ELSE path)
             ELSE PathFold(segs, i + 1, Append(path, PercentEncode(buf)))

RECURSIVE SerializePath(_)
SerializePath(path) ==
    IF path = <<>> THEN <<>>
    ELSE <<"/">> \o Head(path) \o SerializePath(Tail(path))

\* Path start state and path state on what follows the authority (or the
\* whole relative reference): the text up to "?" or "#".
PathState(rest, special) ==
    LET p == SubSeq(rest, 1, FirstIn(rest, 1, {"?", "#"}) - 1)
        slash == p # <<>> /\ p[1] \in PathSeps(special)
        t == IF slash THEN Tail(p) ELSE p
    IN  IF ~special /\ p = <<>> THEN UrlOk(<<>>)
        ELSE UrlOk(SerializePath(PathFold(SplitSegments(t, PathSeps(special)), 1, <<>>)))

\* Authority state: userinfo, host and port up to the path.
AuthorityState(rest, special) ==
    LET e == FirstIn(rest, 1, PathSeps(special) \cup {"?", "#"})
        auth == SubSeq(rest, 1, e - 1)
        ats == {i \in 1..Len(auth) : auth[i] = "@"}
        hostport == IF ats = {} THEN auth
                    ELSE Tail2(auth, (CHOOSE i \in ats : \A j \in ats : i >= j) + 1)
        c == FirstIn(hostport, 1, {":"})
        host == SubSeq(hostport, 1, c - 1)
        port == Tail2(hostport, c + 1)
    IN  IF special /\ host = <<>> THEN UrlFailure
        ELSE IF \E i \in 1..Len(host) : host[i] \in ForbiddenHostChars THEN UrlFailure
        ELSE IF \E i \in 1..Len(port) : port[i] \notin DigitChars THEN UrlFailure
        ELSE PathState(Tail2(rest, e), special)

SlashChars == {"/", "\\"}
IsSlash(c) == c \in SlashChars

\* Relative state against the base http://placeholder, whose path is "/".
RelativeState(s) ==
    IF s = <<>> THEN UrlOk(<<"/">>)
    ELSE IF IsSlash(s[1])
    THEN IF Len(s) >= 2 /\ IsSlash(s[2])
         THEN AuthorityState(Tail2(s, FirstNotIn(s, 1, SlashChars)), TRUE)
         ELSE PathState(s, TRUE)
    ELSE IF s[1] \in {"?", "#"} THEN UrlOk(<<"/">>)
    ELSE PathState(s, TRUE)

\* What follows "scheme:".
AfterScheme(scheme, rest, hasBase) ==
    IF scheme \in SpecialSchemes
    THEN IF hasBase /\ scheme = Http /\ ~(Len(rest) >= 2 /\ rest[1] = "/" /\ rest[2] = "/")
         THEN RelativeState(rest)
         ELSE IF scheme = <<"f","i","l","e">>
         THEN IF Len(rest) >= 2 /\ IsSlash(rest[1]) /\ IsSlash(rest[2])
              THEN PathState(Tail2(rest, FirstIn(rest, 3, {"/", "\\", "?", "#"})), TRUE)
              ELSE PathState(rest, TRUE)
         ELSE AuthorityState(Tail2(rest, FirstNotIn(rest, 1, SlashChars)), TRUE)
    ELSE IF rest # <<>> /\ rest[1] = "/"
    THEN IF Len(rest) >= 2 /\ rest[2] = "/"
         THEN AuthorityState(Tail2(rest, 3), FALSE)
         ELSE PathState(rest, FALSE)
    ELSE UrlOk(SubSeq(rest, 1, FirstIn(rest, 1, {"?", "#"}) - 1))

\* new URL(input) when hasBase is FALSE, new URL(input, "http://placeholder")
\* when it is TRUE.
ParseUrl(input, hasBase) ==
    LET s == trim(input)
        k == SchemeEnd(s)
    IN  IF k # 0 THEN AfterScheme(toLowerCase(SubSeq(s, 1, k - 1)), Tail2(s, k + 1), hasBase)
        ELSE IF hasBase THEN RelativeState(s)
        ELSE UrlFailure

normalizePagePath(path) ==
    IF ~Truthy(path) THEN <<"/">>
    ELSE LET url == IF startsWith(path, Http) THEN ParseUrl(path, FALSE)
                    ELSE ParseUrl(path, TRUE)
         IN  IF url.ok
             THEN IF url.pathname # <<>> THEN url.pathname ELSE <<"/">>
             ELSE IF startsWith(path, <<"/">>) THEN path ELSE <<"/">> \o path

\* ------------------------------------------------------ normalizeHexPubkey
\* An identity string is represented by what the normalizer can tell about
\* it: its form (64 lower-case hex digits, 64 hex digits with upper-case
\* letters, a bech32 npub, any other non-empty text, or the empty string) and
\* the public key it encodes.
IdStr(form, key) == [form |-> form, key |-> key]
EmptyStr == IdStr("empty", "-")
NullId == IdStr("null", "-")
hexA == IdStr("hex", "a")
HEXA == IdStr("HEX", "a")
npubA == IdStr("npub", "a")
hexB == IdStr("hex", "b")
junk == IdStr("other", "-")

\* JS truthiness of an identity string.
TruthyId(v) == v # NullId /\ v # EmptyStr

normalizeHexPubkey(input) ==
    IF ~TruthyId(input) THEN NullId
    ELSE IF input.form \in {"hex", "HEX"} THEN IdStr("hex", input.key)
    ELSE IF input.form = "npub" THEN IdStr("hex", input.key)
    ELSE NullId

\* -------------------------------------------------------------------- state
VARIABLES
    sites,        \* rows of table sites
    visits,       \* rows of table visits
    page_stats,   \* rows of table page_stats
    siteSeq,      \* AUTOINCREMENT sequence of sites.id
    visitSeq,     \* AUTOINCREMENT sequence of visits.id
    now,          \* CURRENT_TIMESTAMP
    req,          \* the tool call the synchronous server process is handling
    pc,           \* processes sharing the database: the call each is in the middle of
    res,          \* what the call that has just ended returned or threw
    prev,         \* what the first delivery of a call delivered twice returned
    hist          \* per site id: the recordVisit calls that have returned normally

store == <<sites, visits, page_stats, siteSeq, visitSeq>>
vars == <<sites, visits, page_stats, siteSeq, visitSeq, now, req, pc, res, prev, hist>>

Procs == {"p1", "p2"}
Absent == "ABSENT"

NoSite == [id |-> 0, site_uuid |-> NULL, name |-> NULL, owner_npub |-> NullId,
           secret_token |-> NULL, created_at |-> NullTime, updated_at |-> NullTime]

\* A call and its arguments (owner is ownerNpub, npub or callerPubkey).
NoCall == [op |-> "none", siteUuid |-> NULL, name |-> NULL, owner |-> NullId,
           pagePath |-> NullText, deviceType |-> NullText, userAgent |-> NullText,
           nostrEventId |-> NullText]
RegisterCall(u, n, o) ==
    [NoCall EXCEPT !.op = "registerSite", !.siteUuid = u, !.name = n, !.owner = o]
RecordCall(u, pp, d, ua, e) ==
    [NoCall EXCEPT !.op = "recordVisit", !.siteUuid = u, !.pagePath = pp,
                   !.deviceType = d, !.userAgent = ua, !.nostrEventId = e]
StatsCall(u, c) == [NoCall EXCEPT !.op = "getSiteStats", !.siteUuid = u, !.owner = c]
UpdateCall(u, c, n) ==
    [NoCall EXCEPT !.op = "updateSite", !.siteUuid = u, !.owner = c, !.name = n]
DeleteCall(u, c) == [NoCall EXCEPT !.op = "deleteSite", !.siteUuid = u, !.owner = c]
ListCall(c) == [NoCall EXCEPT !.op = "listSites", !.owner = c]

Idle == [op |-> "idle", call |-> NoCall, siteId |-> 0, existed |-> FALSE,
         pagePath |-> NullText, deviceType |-> NullText, nostrEventId |-> NullText,
         site |-> NoSite, rows |-> <<>>, visitsByDay |-> <<>>]

NoError == "ok"
NoResult == [op |-> "none", error |-> NoError, site |-> NoSite, pagePath |-> NullText,
             deviceType |-> NullText, visits |-> 0, lastSeen |-> NullTime,
             deleted |-> FALSE, totalVisits |-> 0, pages |-> 0, pageList |-> <<>>,
             visitsByDay |-> <<>>, pageVisitsByDay |-> <<>>, list |-> <<>>]

NoHist == [noId |-> 0, ids |-> {}, raced |-> FALSE, dup |-> FALSE]

Init ==
    /\ sites = {}
    /\ visits = {}
    /\ page_stats = {}
    /\ siteSeq = 0
    /\ visitSeq = 0
    /\ now = 0
    /\ req = NoCall
    /\ pc = [p \in Procs |-> Idle]
    /\ res = NoResult
    /\ prev = NoResult
    /\ hist = [i \in {} |-> NoHist]

\* The clock advances between calls.
Tick ==
    /\ res = NoResult
    /\ now < MaxClock
    /\ now' = now + 1
    /\ UNCHANGED <<store, req, pc, res, prev, hist>>

\* date(visited_at, 'localtime'): the day a timestamp falls on.
TicksPerDay == 2
DayOf(t) == t \div TicksPerDay

\* Midnight passes: the clock moves to the start of the next day.
NextDay ==
    /\ res = NoResult
    /\ DayOf(now) < MaxDay
    /\ now' = (DayOf(now) + 1) * TicksPerDay
    /\ UNCHANGED <<store, req, pc, res, prev, hist>>

\* The result goes back to the caller.
Reply ==
    /\ res # NoResult
    /\ res' = NoResult
    /\ req' = NoCall
    /\ prev' = NoResult
    /\ UNCHANGED <<store, now, pc, hist>>

\* ----------------------------------------------------------------- findSite
\* A lookup that settles for another site when the identifier matches none.
findSite_Any(S, siteUuid) ==
    IF \E r \in S : r.site_uuid = siteUuid
    THEN CHOOSE r \in S : r.site_uuid = siteUuid
    ELSE IF S # {} THEN CHOOSE r \in S : TRUE
    ELSE NoSite

findSite(S, siteUuid) ==
    IF \E r \in S : r.site_uuid = siteUuid
    THEN CHOOSE r \in S : r.site_uuid = siteUuid
    ELSE NoSite

\* A thrown Error: the call ends with the message.
Throw(op, message) == res' = [NoResult EXCEPT !.op = op, !.error = message]

\* ------------------------------------------------------------- registerSite
CoalesceName(a, b) == IF a # NULL THEN a ELSE b
CoalesceId(a, b) == IF a # NullId THEN a ELSE b

\* A registerSite that never refuses an owner.
OwnerConflict_Never(existing, ownerNpub) == FALSE

\* The ownership check of registerSite on the row findSite returned.
OwnerConflict(existing, ownerNpub) ==
    /\ TruthyId(ownerNpub)
    /\ TruthyId(existing.owner_npub)
    /\ existing.owner_npub # ownerNpub

\* An UPDATE that stores the arguments as they come, without COALESCE.
RegisterUpdate_Overwrite(S, siteUuid, name, ownerNpub, t) ==
    {IF r.site_uuid = siteUuid
     THEN [r EXCEPT !.name = name, !.owner_npub = ownerNpub, !.updated_at = t]
     ELSE r : r \in S}

\* UPDATE sites SET name = COALESCE(?, name), owner_npub = COALESCE(?, owner_npub),
\*                  updated_at = CURRENT_TIMESTAMP WHERE site_uuid = ?
RegisterUpdate(S, siteUuid, name, ownerNpub, t) ==
    {IF r.site_uuid = siteUuid
     THEN [r EXCEPT !.name = CoalesceName(name, r.name),
                    !.owner_npub = CoalesceId(ownerNpub, r.owner_npub),
                    !.updated_at = t]
     ELSE r : r \in S}

\* INSERT INTO sites (site_uuid, name, owner_npub, owner_signature, secret_token)
NewSiteRow(id, siteUuid, name, ownerNpub, secretToken, t) ==
    [id |-> id, site_uuid |-> siteUuid, name |-> name, owner_npub |-> ownerNpub,
     secret_token |-> secretToken, created_at |-> t, updated_at |-> t]

\* randomBytes(24).toString("hex")
Tokens == {"t1", "t2"}

\* A sites table without the UNIQUE constraint on site_uuid.
RegisterSiteWrite_NoUnique(existed, siteUuid, name, ownerNpub) ==
    /\ IF existed
       THEN /\ sites' = RegisterUpdate(sites, siteUuid, name, ownerNpub, now)
            /\ siteSeq' = siteSeq
            /\ res' = [NoResult EXCEPT !.op = "registerSite",
                                       !.site = findSite(sites', siteUuid)]
       ELSE /\ siteSeq < MaxSiteRows
            /\ \E secretToken \in Tokens :
                 sites' = sites \cup {NewSiteRow(siteSeq + 1, siteUuid, name, ownerNpub,
                                                 secretToken, now)}
            /\ siteSeq' = siteSeq + 1
            /\ res' = [NoResult EXCEPT !.op = "registerSite",
                                       !.site = findSite(sites', siteUuid)]
    /\ UNCHANGED <<visits, page_stats, visitSeq>>

\* The statements of registerSite after the lookup and the ownership check:
\* the UPDATE when the lookup found a row, else the INSERT (which the UNIQUE
\* constraint on site_uuid rejects when a row has appeared meanwhile), and
\* the findSite that reads the record back.
RegisterSiteWrite(existed, siteUuid, name, ownerNpub) ==
    /\ IF existed
       THEN /\ sites' = RegisterUpdate(sites, siteUuid, name, ownerNpub, now)
            /\ siteSeq' = siteSeq
            /\ res' = [NoResult EXCEPT !.op = "registerSite",
                                       !.site = findSite(sites', siteUuid)]
       ELSE IF \E r \in sites : r.site_uuid = siteUuid
       THEN /\ Throw("registerSite", "UNIQUE constraint failed: sites.site_uuid")
            /\ UNCHANGED <<sites, siteSeq>>
       ELSE /\ siteSeq < MaxSiteRows
            /\ \E secretToken \in Tokens :
                 sites' = sites \cup {NewSiteRow(siteSeq + 1, siteUuid, name, ownerNpub,
                                                 secretToken, now)}
            /\ siteSeq' = siteSeq + 1
            /\ res' = [NoResult EXCEPT !.op = "registerSite",
                                       !.site = findSite(sites', siteUuid)]
    /\ UNCHANGED <<visits, page_stats, visitSeq>>

registerSite(siteUuid, name, ownerNpub) ==
    LET existing == findSite(sites, siteUuid)
    IN  IF existing # NoSite /\ OwnerConflict(existing, ownerNpub)
        THEN /\ Throw("registerSite", "Owner npub does not match existing site owner")
             /\ UNCHANGED store
        ELSE RegisterSiteWrite(existing # NoSite, siteUuid, name, ownerNpub)

\* -------------------------------------------------------------- recordVisit
\* (params.nostrEventId || "").trim() || null
TrimEventId(nostrEventId) ==
    LET t == trim(OrEmpty(nostrEventId))
    IN  IF t # <<>> THEN t ELSE NullText

\* A lookup of the row by site and device alone.
StatRow_AnyPage(P, siteId, pagePath, deviceType) ==
    {r \in P : r.site_id = siteId /\ r.device_type = deviceType}

StatRow(P, siteId, pagePath, deviceType) ==
    {r \in P : r.site_id = siteId /\ r.page_path = pagePath /\ r.device_type = deviceType}

\* An upsert whose conflict branch leaves the count alone.
UpsertPageStat_NoIncrement(P, siteId, pagePath, deviceType, t) ==
    IF StatRow(P, siteId, pagePath, deviceType) = {}
    THEN P \cup {[site_id |-> siteId, page_path |-> pagePath, device_type |-> deviceType,
                  visit_count |-> 1, last_seen |-> t]}
    ELSE {IF r \in StatRow(P, siteId, pagePath, deviceType)
          THEN [r EXCEPT !.last_seen = t]
          ELSE r : r \in P}

\* INSERT OR REPLACE instead of the upsert: the count starts again at 1.
UpsertPageStat_Replace(P, siteId, pagePath, deviceType, t) ==
    (P \ StatRow(P, siteId, pagePath, deviceType))
    \cup {[site_id |-> siteId, page_path |-> pagePath, device_type |-> deviceType,
           visit_count |-> 1, last_seen |-> t]}

\* INSERT INTO page_stats ... ON CONFLICT(site_id, page_path, device_type)
\* DO UPDATE SET visit_count = visit_count + 1, last_seen = CURRENT_TIMESTAMP
UpsertPageStat(P, siteId, pagePath, deviceType, t) ==
    IF StatRow(P, siteId, pagePath, deviceType) = {}
    THEN P \cup {[site_id |-> siteId, page_path |-> pagePath, device_type |-> deviceType,
                  visit_count |-> 1, last_seen |-> t]}
    ELSE {IF r \in StatRow(P, siteId, pagePath, deviceType)
          THEN [r EXCEPT !.visit_count = r.visit_count + 1, !.last_seen = t]
          ELSE r : r \in P}

\* A visits table without the unique index on nostr_event_id.
EventIdTaken_Never(V, nostrEventId) == FALSE

\* The unique index idx_visits_event: INSERT OR IGNORE skips the row when its
\* nostr_event_id is already there (NULLs never collide).
EventIdTaken(V, nostrEventId) ==
    nostrEventId # NullText /\ \E v \in V : v.nostr_event_id = nostrEventId

VisitResult(pagePath, deviceType, count, seen) ==
    [NoResult EXCEPT !.op = "recordVisit", !.pagePath = pagePath,
                     !.deviceType = deviceType, !.visits = count, !.lastSeen = seen]

\* db.transaction(() => { INSERT OR IGNORE INTO visits ...; ... })(): the
\* statements commit together.  A visit row whose site_id names no site fails
\* the foreign key, and the exception rolls the transaction back.
RecordVisitTxn(siteId, pagePath, deviceType, nostrEventId) ==
    LET changes == IF EventIdTaken(visits, nostrEventId) THEN 0 ELSE 1
        existing == StatRow(page_stats, siteId, pagePath, deviceType)
    IN  /\ IF changes = 0 /\ Truthy(nostrEventId)
           THEN /\ res' = IF existing # {}
                          THEN LET e == CHOOSE r \in existing : TRUE
                               IN  VisitResult(pagePath, deviceType, e.visit_count, e.last_seen)
                          ELSE VisitResult(pagePath, deviceType, 0, NullTime)
                /\ UNCHANGED <<visits, page_stats, visitSeq>>
           ELSE IF ~\E r \in sites : r.id = siteId
           THEN /\ Throw("recordVisit", "FOREIGN KEY constraint failed")
                /\ UNCHANGED <<visits, page_stats, visitSeq>>
           ELSE /\ visitSeq < MaxVisitRows
                /\ visits' = visits \cup
                      {[id |-> visitSeq + 1, site_id |-> siteId, page_path |-> pagePath,
                        device_type |-> deviceType, nostr_event_id |-> nostrEventId,
                        visited_at |-> now]}
                /\ visitSeq' = visitSeq + 1
                /\ page_stats' = UpsertPageStat(page_stats, siteId, pagePath, deviceType, now)
                /\ LET r == CHOOSE x \in StatRow(page_stats', siteId, pagePath, deviceType) : TRUE
                   IN  res' = VisitResult(pagePath, deviceType, r.visit_count, r.last_seen)
        /\ UNCHANGED <<sites, siteSeq>>

\* The message of a storage failure inside the transaction.
IoError == "disk I/O error"

\* A failure that leaves the inserted visits row behind.
RecordVisitRollback_Partial(siteId, pagePath, deviceType, nostrEventId) ==
    /\ Throw("recordVisit", IoError)
    /\ visits' = visits \cup
          {[id |-> visitSeq + 1, site_id |-> siteId, page_path |-> pagePath,
            device_type |-> deviceType, nostr_event_id |-> nostrEventId,
            visited_at |-> now]}
    /\ visitSeq' = visitSeq + 1
    /\ UNCHANGED <<sites, siteSeq, page_stats>>

\* db.transaction: when the page_stats statement throws after the visits
\* insert, the wrapper rolls the transaction back and rethrows.
RecordVisitRollback(siteId, pagePath, deviceType, nostrEventId) ==
    /\ Throw("recordVisit", IoError)
    /\ UNCHANGED store

recordVisit(siteUuid, pagePathArg, deviceTypeArg, userAgent, nostrEventIdArg) ==
    LET site == findSite(sites, siteUuid)
        pagePath == normalizePagePath(pagePathArg)
        deviceType == normalizeDeviceType(deviceTypeArg, userAgent)
        nostrEventId == TrimEventId(nostrEventIdArg)
    IN  IF site = NoSite
        THEN /\ Throw("recordVisit", "Site not found")
             /\ UNCHANGED store
        ELSE RecordVisitTxn(site.id, pagePath, deviceType, nostrEventId)

\* --------------------------------------------------------- listSitesForNpub
\* A comparison of the keys the two strings encode.
OwnerEquals_Normalized(stored, npub) ==
    /\ normalizeHexPubkey(stored) # NullId
    /\ normalizeHexPubkey(stored) = normalizeHexPubkey(npub)

\* WHERE owner_npub = ?: a NULL owner_npub equals nothing.
OwnerEquals(stored, npub) == stored # NullId /\ stored = npub

\* ORDER BY created_at DESC: the orders SQLite may return the rows in (rows
\* created at the same second come in either order).
NewestFirst(rows) ==
    {seq \in [1..Cardinality(rows) -> rows] :
        /\ \A i, j \in DOMAIN seq : seq[i] = seq[j] => i = j
        /\ \A i, j \in DOMAIN seq : i < j => seq[i].created_at >= seq[j].created_at}

listSitesForNpub(npub) ==
    /\ \E rows \in NewestFirst({r \in sites : OwnerEquals(r.owner_npub, npub)}) :
          res' = [NoResult EXCEPT !.op = "listSites", !.list = rows]
    /\ UNCHANGED store

\* ------------------------------------------------------------- getSiteStats
\* The characters of the model's texts in code-unit order (SQLite's BINARY
\* collation, which ORDER BY page_path, device_type uses).
CodeUnits ==
    <<" ", "#", "%", "+", "-", ".", "/", "0", "1", "2", "3", "4", "5", "6", "7", "8", "9",
      ":", "<", ">", "?", "@">> \o UpperChars \o <<"[", "\\", "]", "^">> \o LowerChars
      \o <<"|">>
CodeOf(c) == CHOOSE i \in DOMAIN CodeUnits : CodeUnits[i] = c

\* a sorts before b.
TextLess(a, b) ==
    \E k \in 1..(Len(b)) :
        /\ \A j \in 1..(k - 1) : j <= Len(a) /\ a[j] = b[j]
        /\ k > Len(a) \/ (k - 1 < Len(a) /\ CodeOf(a[k]) < CodeOf(b[k]))

StatRowLess(r, q) ==
    \/ TextLess(r.page_path, q.page_path)
    \/ r.page_path = q.page_path /\ TextLess(r.device_type, q.device_type)

\* SELECT page_path, device_type, visit_count, last_seen FROM page_stats
\* WHERE site_id = ? ORDER BY page_path, device_type
RECURSIVE OrderStatRows(_)
OrderStatRows(rows) ==
    IF rows = {} THEN <<>>
    ELSE LET first == CHOOSE r \in rows : \A q \in rows \ {r} : StatRowLess(r, q)
         IN  <<first>> \o OrderStatRows(rows \ {first})

SelectStatRows(P, siteId) == OrderStatRows({r \in P : r.site_id = siteId})

RECURSIVE OrderDays(_)
OrderDays(days) ==
    IF days = {} THEN <<>>
    ELSE LET first == CHOOSE d \in days : \A e \in days : d <= e
         IN  <<first>> \o OrderDays(days \ {first})

\* SELECT date(visited_at, 'localtime') AS day, COUNT(*) AS visits FROM visits
\* WHERE site_id = ? GROUP BY day ORDER BY day
SelectVisitsByDay(V, siteId) ==
    LET mine == {v \in V : v.site_id = siteId}
        days == OrderDays({DayOf(v.visited_at) : v \in mine})
    IN  [i \in DOMAIN days |->
            [date |-> days[i],
             visits |-> Cardinality({v \in mine : DayOf(v.visited_at) = days[i]})]]

RECURSIVE OrderTexts(_)
OrderTexts(texts) ==
    IF texts = {} THEN <<>>
    ELSE LET first == CHOOSE a \in texts : \A b \in texts \ {a} : TextLess(a, b)
         IN  <<first>> \o OrderTexts(texts \ {first})

\* SELECT page_path, date(...) AS day, COUNT(*) AS visits FROM visits WHERE
\* site_id = ? GROUP BY page_path, day ORDER BY page_path, day, folded into
\* one entry per page whose days are sorted by date.
SelectPageVisitsByDay(V, siteId) ==
    LET mine == {v \in V : v.site_id = siteId}
        pageSeq == OrderTexts({v.page_path : v \in mine})
    IN  [i \in DOMAIN pageSeq |->
            [page |-> pageSeq[i],
             days |-> SelectVisitsByDay({v \in mine : v.page_path = pageSeq[i]}, siteId)]]

NoDevices == [d \in DeviceTypeSet |-> 0]
NewPage(pagePath) ==
    [page |-> pagePath, totalVisits |-> 0, devices |-> NoDevices, lastSeen |-> NullTime]

PageIndex(pages, pagePath) ==
    IF \E i \in DOMAIN pages : pages[i].page = pagePath
    THEN CHOOSE i \in DOMAIN pages : pages[i].page = pagePath
    ELSE 0

\* A merge that keeps the count of the last row as the page's total.
PageMerge_NoSum(existing, row) ==
    [existing EXCEPT !.totalVisits = row.visit_count,
                     !.devices[row.device_type] = row.visit_count,
                     !.lastSeen = row.last_seen]

\* The row's last_seen replaces the one held for the page.
PageMerge(existing, row) ==
    [existing EXCEPT !.totalVisits = @ + row.visit_count,
                     !.devices[row.device_type] = row.visit_count,
                     !.lastSeen = row.last_seen]

\* for (const row of rows) { ... pageMap.set(row.page_path, existing) }
RECURSIVE PageMap(_, _, _)
PageMap(rows, i, pages) ==
    IF i > Len(rows) THEN pages
    ELSE LET row == rows[i]
             k == PageIndex(pages, row.page_path)
         IN  IF k = 0
             THEN PageMap(rows, i + 1, Append(pages, PageMerge(NewPage(row.page_path), row)))
             ELSE PageMap(rows, i + 1, [pages EXCEPT ![k] = PageMerge(pages[k], row)])

\* A total that counts each row once instead of adding its visit_count.
RECURSIVE SumVisitCount_Rows(_)
SumVisitCount_Rows(rows) ==
    IF rows = {} THEN 0
    ELSE LET r == CHOOSE x \in rows : TRUE
         IN  1 + SumVisitCount_Rows(rows \ {r})

RECURSIVE SumVisitCount(_)
SumVisitCount(rows) ==
    IF rows = {} THEN 0
    ELSE LET r == CHOOSE x \in rows : TRUE
         IN  r.visit_count + SumVisitCount(rows \ {r})

\* The owner check of getSiteStats: the stored string against the caller's.
StatsOwnerMismatch(site, npub) ==
    TruthyId(site.owner_npub) /\ site.owner_npub # npub

\* The value getSiteStats returns from the rows its three queries gave.
SiteStats(site, rows, visitsByDay, pageVisitsByDay) ==
    LET pages == PageMap(rows, 1, <<>>)
    IN  [NoResult EXCEPT !.op = "getSiteStats", !.site = site,
                         !.totalVisits = SumVisitCount({rows[i] : i \in DOMAIN rows}),
                         !.pages = Len(pages),
                         !.pageList = pages,
                         !.visitsByDay = visitsByDay,
                         !.pageVisitsByDay = pageVisitsByDay]

getSiteStats(siteUuid, npub) ==
    LET site == findSite(sites, siteUuid)
    IN  /\ IF site = NoSite
           THEN Throw("getSiteStats", "Site not found")
           ELSE IF StatsOwnerMismatch(site, npub)
           THEN Throw("getSiteStats", "Owner npub mismatch")
           ELSE res' = SiteStats(site, SelectStatRows(page_stats, site.id),
                                 SelectVisitsByDay(visits, site.id),
                                 SelectPageVisitsByDay(visits, site.id))
        /\ UNCHANGED store

\* ------------------------------------------- updateSiteByOwner, deleteSiteByOwner
\* The owner check the two share: the message thrown, or NoError.
OwnerGuard(site, callerPubkey) ==
    LET ownerHex == normalizeHexPubkey(site.owner_npub)
        callerHex == normalizeHexPubkey(callerPubkey)
    IN  IF ownerHex = NullId \/ callerHex = NullId
        THEN "Unable to validate owner pubkey"
        ELSE IF ownerHex # callerHex
        THEN "Caller pubkey does not match site owner"
        ELSE NoError

\* An UPDATE that also clears the owner.
UpdateSiteWrite_ClearOwner(siteUuid, name) ==
    /\ sites' = {IF r.site_uuid = siteUuid
                 THEN [r EXCEPT !.name = name, !.owner_npub = NullId, !.updated_at = now]
                 ELSE r : r \in sites}
    /\ res' = [NoResult EXCEPT !.op = "updateSite", !.site = findSite(sites', siteUuid)]
    /\ UNCHANGED <<visits, page_stats, siteSeq, visitSeq>>

\* UPDATE sites SET name = ?, updated_at = CURRENT_TIMESTAMP WHERE site_uuid = ?
\* and the findSite that reads the record back.
UpdateSiteWrite(siteUuid, name) ==
    /\ sites' = {IF r.site_uuid = siteUuid
                 THEN [r EXCEPT !.name = name, !.updated_at = now]
                 ELSE r : r \in sites}
    /\ res' = [NoResult EXCEPT !.op = "updateSite", !.site = findSite(sites', siteUuid)]
    /\ UNCHANGED <<visits, page_stats, siteSeq, visitSeq>>

updateSiteByOwner(siteUuid, callerPubkey, name) ==
    LET site == findSite(sites, siteUuid)
    IN  IF site = NoSite
        THEN Throw("updateSite", "Site not found") /\ UNCHANGED store
        ELSE IF OwnerGuard(site, callerPubkey) # NoError
        THEN Throw("updateSite", OwnerGuard(site, callerPubkey)) /\ UNCHANGED store
        ELSE IF name = Absent
        THEN /\ res' = [NoResult EXCEPT !.op = "updateSite", !.site = site]
             /\ UNCHANGED store
        ELSE UpdateSiteWrite(siteUuid, name)

\* A delete with foreign keys off: the site's rows stay behind.
DeleteSiteWrite_NoCascade(siteId) ==
    /\ sites' = {r \in sites : r.id # siteId}
    /\ res' = [NoResult EXCEPT !.op = "deleteSite",
                               !.deleted = (\E r \in sites : r.id = siteId)]
    /\ UNCHANGED <<page_stats, visits, siteSeq, visitSeq>>

\* DELETE FROM sites WHERE id = ?, with ON DELETE CASCADE on page_stats.site_id
\* and visits.site_id (PRAGMA foreign_keys=ON).
DeleteSiteWrite(siteId) ==
    /\ sites' = {r \in sites : r.id # siteId}
    /\ page_stats' = {r \in page_stats : r.site_id # siteId}
    /\ visits' = {v \in visits : v.site_id # siteId}
    /\ res' = [NoResult EXCEPT !.op = "deleteSite",
                               !.deleted = (\E r \in sites : r.id = siteId)]
    /\ UNCHANGED <<siteSeq, visitSeq>>

deleteSiteByOwner(siteUuid, callerPubkey) ==
    LET site == findSite(sites, siteUuid)
    IN  IF site = NoSite
        THEN Throw("deleteSite", "Site not found") /\ UNCHANGED store
        ELSE IF OwnerGuard(site, callerPubkey) # NoError
        THEN Throw("deleteSite", OwnerGuard(site, callerPubkey)) /\ UNCHANGED store
        ELSE DeleteSiteWrite(site.id)

\* ------------------------------------------------ the synchronous server
\* One server process: a tool call arrives, its handler runs to completion,
\* the result goes back.
Receive(calls) ==
    /\ req = NoCall
    /\ res = NoResult
    /\ \E c \in calls : req' = c
    /\ UNCHANGED <<store, now, pc, res, prev, hist>>

\* A record_visit request is delivered a second time (the transport may
\* deliver a request twice; the caller may send it again).
Redeliver ==
    /\ req.op = "recordVisit"
    /\ res # NoResult
    /\ prev = NoResult
    /\ prev' = res
    /\ res' = NoResult
    /\ UNCHANGED <<store, now, req, pc, hist>>

HandleRegisterSite ==
    /\ req.op = "registerSite"
    /\ res = NoResult
    /\ registerSite(req.siteUuid, req.name, req.owner)
    /\ UNCHANGED <<now, req, pc, prev, hist>>

HandleRecordVisit ==
    /\ req.op = "recordVisit"
    /\ res = NoResult
    /\ recordVisit(req.siteUuid, req.pagePath, req.deviceType, req.userAgent,
                   req.nostrEventId)
    /\ UNCHANGED <<now, req, pc, prev, hist>>

HandleGetSiteStats ==
    /\ req.op = "getSiteStats"
    /\ res = NoResult
    /\ getSiteStats(req.siteUuid, req.owner)
    /\ UNCHANGED <<now, req, pc, prev, hist>>

HandleUpdateSite ==
    /\ req.op = "updateSite"
    /\ res = NoResult
    /\ updateSiteByOwner(req.siteUuid, req.owner, req.name)
    /\ UNCHANGED <<now, req, pc, prev, hist>>

HandleDeleteSite ==
    /\ req.op = "deleteSite"
    /\ res = NoResult
    /\ deleteSiteByOwner(req.siteUuid, req.owner)
    /\ UNCHANGED <<now, req, pc, prev, hist>>

HandleListSites ==
    /\ req.op = "listSites"
    /\ res = NoResult
    /\ listSitesForNpub(req.owner)
    /\ UNCHANGED <<now, req, pc, prev, hist>>

\* A recordVisit whose transaction fails after its visits insert.
HandleRecordVisitFails ==
    /\ req.op = "recordVisit"
    /\ res = NoResult
    /\ findSite(sites, req.siteUuid) # NoSite
    /\ ~EventIdTaken(visits, TrimEventId(req.nostrEventId))
    /\ visitSeq < MaxVisitRows
    /\ RecordVisitRollback(findSite(sites, req.siteUuid).id,
                           normalizePagePath(req.pagePath),
                           normalizeDeviceType(req.deviceType, req.userAgent),
                           TrimEventId(req.nostrEventId))
    /\ UNCHANGED <<now, req, pc, prev, hist>>

Handle ==
    \/ HandleRegisterSite
    \/ HandleRecordVisit
    \/ HandleGetSiteStats
    \/ HandleUpdateSite
    \/ HandleDeleteSite

\* ------------------------------------- processes sharing the database file
\* Each process runs the handlers above; between its lookup and its write
\* another process's statements may commit.
Pending(p, op, c, siteId, existed) ==
    [pc EXCEPT ![p] = [Idle EXCEPT !.op = op, !.call = c, !.siteId = siteId,
                                   !.existed = existed]]

RegisterSiteFind(p, c) ==
    /\ pc[p] = Idle
    /\ res = NoResult
    /\ c.op = "registerSite"
    /\ LET existing == findSite(sites, c.siteUuid)
       IN  IF existing # NoSite /\ OwnerConflict(existing, c.owner)
           THEN /\ Throw("registerSite", "Owner npub does not match existing site owner")
                /\ UNCHANGED pc
           ELSE /\ pc' = Pending(p, "registerSite", c, existing.id, existing # NoSite)
                /\ UNCHANGED res
    /\ UNCHANGED <<store, now, req, prev, hist>>

RegisterSiteCommit(p) ==
    /\ pc[p].op = "registerSite"
    /\ res = NoResult
    /\ RegisterSiteWrite(pc[p].existed, pc[p].call.siteUuid, pc[p].call.name,
                         pc[p].call.owner)
    /\ pc' = [pc EXCEPT ![p] = Idle]
    /\ UNCHANGED <<now, req, prev, hist>>

RecordVisitFind(p, c) ==
    /\ pc[p] = Idle
    /\ res = NoResult
    /\ c.op = "recordVisit"
    /\ LET site == findSite(sites, c.siteUuid)
       IN  IF site = NoSite
           THEN /\ Throw("recordVisit", "Site not found")
                /\ UNCHANGED pc
           ELSE /\ pc' = [pc EXCEPT ![p] =
                            [Idle EXCEPT !.op = "recordVisit", !.call = c, !.siteId = site.id,
                               !.pagePath = normalizePagePath(c.pagePath),
                               !.deviceType = normalizeDeviceType(c.deviceType, c.userAgent),
                               !.nostrEventId = TrimEventId(c.nostrEventId)]]
                /\ UNCHANGED res
    /\ UNCHANGED <<store, now, req, prev, hist>>

\* The calls on a (site id, page, device) triple that have returned normally:
\* how many carried no event id, the event ids the others carried, whether
\* one of them returned while another was in flight (raced), and whether one
\* carried an event id that an earlier one had carried (dup).
HistOf(h, key) == IF key \in DOMAIN h THEN h[key] ELSE NoHist
Returned(h, key, nostrEventId, raced) ==
    [k \in DOMAIN h \cup {key} |->
        IF k # key THEN h[k]
        ELSE IF nostrEventId = NullText
        THEN [HistOf(h, key) EXCEPT !.noId = @ + 1, !.raced = @ \/ raced]
        ELSE [HistOf(h, key) EXCEPT !.ids = @ \cup {nostrEventId}, !.raced = @ \/ raced,
                                    !.dup = @ \/ nostrEventId \in HistOf(h, key).ids]]

\* Another process is between the lookup and the transaction of a
\* recordVisit on the same triple.
Racing(p) ==
    \E q \in Procs \ {p} :
        /\ pc[q].op = "recordVisit"
        /\ pc[q].siteId = pc[p].siteId
        /\ pc[q].pagePath = pc[p].pagePath
        /\ pc[q].deviceType = pc[p].deviceType

RecordVisitCommit(p) ==
    /\ pc[p].op = "recordVisit"
    /\ res = NoResult
    /\ RecordVisitTxn(pc[p].siteId, pc[p].pagePath, pc[p].deviceType, pc[p].nostrEventId)
    /\ pc' = [pc EXCEPT ![p] = Idle]
    /\ hist' = IF res'.error = NoError
               THEN Returned(hist, <<pc[p].siteId, pc[p].pagePath, pc[p].deviceType>>,
                             pc[p].nostrEventId, Racing(p))
               ELSE hist
    /\ UNCHANGED <<now, req, prev>>

DeleteSiteFind(p, c) ==
    /\ pc[p] = Idle
    /\ res = NoResult
    /\ c.op = "deleteSite"
    /\ LET site == findSite(sites, c.siteUuid)
       IN  IF site = NoSite
           THEN Throw("deleteSite", "Site not found") /\ UNCHANGED pc
           ELSE IF OwnerGuard(site, c.owner) # NoError
           THEN Throw("deleteSite", OwnerGuard(site, c.owner)) /\ UNCHANGED pc
           ELSE /\ pc' = Pending(p, "deleteSite", c, site.id, TRUE)
                /\ UNCHANGED res
    /\ UNCHANGED <<store, now, req, prev, hist>>

DeleteSiteCommit(p) ==
    /\ pc[p].op = "deleteSite"
    /\ res = NoResult
    /\ DeleteSiteWrite(pc[p].siteId)
    /\ pc' = [pc EXCEPT ![p] = Idle]
    /\ UNCHANGED <<now, req, prev, hist>>

\* getSiteStats in a process of its own: each of its queries is a statement,
\* and statements of other processes may commit between two of them.
GetSiteStatsFind(p, c) ==
    /\ pc[p] = Idle
    /\ res = NoResult
    /\ c.op = "getSiteStats"
    /\ LET site == findSite(sites, c.siteUuid)
       IN  IF site = NoSite
           THEN Throw("getSiteStats", "Site not found") /\ UNCHANGED pc
           ELSE IF StatsOwnerMismatch(site, c.owner)
           THEN Throw("getSiteStats", "Owner npub mismatch") /\ UNCHANGED pc
           ELSE /\ pc' = [pc EXCEPT ![p] =
                            [Idle EXCEPT !.op = "getSiteStats", !.call = c,
                                         !.siteId = site.id, !.site = site]]
                /\ UNCHANGED res
    /\ UNCHANGED <<store, now, req, prev, hist>>

GetSiteStatsRows(p) ==
    /\ pc[p].op = "getSiteStats"
    /\ pc' = [pc EXCEPT ![p].op = "getSiteStats.visitsByDay",
                        ![p].rows = SelectStatRows(page_stats, pc[p].siteId)]
    /\ UNCHANGED <<store, now, req, res, prev, hist>>

GetSiteStatsVisitsByDay(p) ==
    /\ pc[p].op = "getSiteStats.visitsByDay"
    /\ pc' = [pc EXCEPT ![p].op = "getSiteStats.pageVisitsByDay",
                        ![p].visitsByDay = SelectVisitsByDay(visits, pc[p].siteId)]
    /\ UNCHANGED <<store, now, req, res, prev, hist>>

GetSiteStatsReturn(p) ==
    /\ pc[p].op = "getSiteStats.pageVisitsByDay"
    /\ res = NoResult
    /\ res' = SiteStats(pc[p].site, pc[p].rows, pc[p].visitsByDay,
                        SelectPageVisitsByDay(visits, pc[p].siteId))
    /\ pc' = [pc EXCEPT ![p] = Idle]
    /\ UNCHANGED <<store, now, req, prev, hist>>

\* --------------------------------------------------------- argument domains
e1 == <<"e","1">>
e2 == <<"e","2">>
UrlA == <<"h","t","t","p",":","/","/","h","/","a","?","x">>

\* Two sites, each with one page and one device.
Calls ==
    {RegisterCall(u, NULL, o) : u \in {"s1", "s2"}, o \in {hexA, hexB}}
    \cup {RecordCall(u, NullText, NullText, NullText, e) :
            u \in {"s1", "s2"}, e \in {NullText, e1}}
    \cup {StatsCall(u, c) : u \in {"s1", "s2"}, c \in {hexA}}
    \cup {UpdateCall(u, c, "n1") : u \in {"s1", "s2"}, c \in {hexA}}
    \cup {DeleteCall(u, c) : u \in {"s1", "s2"}, c \in {hexA, hexB}}

\* One site, every form of owner and caller identity.
OwnerCalls ==
    {RegisterCall("s1", n, o) : n \in {NULL, "n1"}, o \in {EmptyStr, hexA, npubA, hexB}}
    \cup {RecordCall("s1", NullText, NullText, NullText, e) : e \in {NullText, e1}}
    \cup {StatsCall("s1", c) : c \in {EmptyStr, hexA, HEXA, npubA, hexB, junk}}
    \cup {UpdateCall("s1", c, n) : c \in {EmptyStr, hexA, HEXA, npubA, hexB, junk},
                                   n \in {Absent, NULL, "n2"}}
    \cup {DeleteCall("s1", c) : c \in {EmptyStr, hexA, HEXA, npubA, hexB, junk}}

\* One site and owner, every form of visit.
VisitCalls ==
    {RegisterCall("s1", NULL, hexA)}
    \cup {RecordCall("s1", pp, d, ua, e) :
            pp \in {NullText, <<"a">>, UrlA},
            d \in {NullText, <<"M","o","b","i","l","e"," ">>},
            ua \in {NullText, <<"x","M","O","B","I","L","E">>},
            e \in {NullText, <<" ">>, e1, <<" ","e","1">>, e2}}
    \cup {StatsCall("s1", hexA), UpdateCall("s1", hexA, "n1"), DeleteCall("s1", hexA)}

\* One site, one page and device, processes racing on it.
ConcCalls ==
    {RegisterCall("s1", NULL, hexA), DeleteCall("s1", hexA)}
    \cup {RecordCall("s1", NullText, NullText, NullText, e) : e \in {NullText, e1, e2}}

\* ------------------------------------------------------------ specifications
Next == Tick \/ Receive(Calls) \/ Handle \/ Redeliver \/ Reply
Spec == Init /\ [][Next]_vars

NextOwners == Tick \/ Receive(OwnerCalls) \/ Handle \/ Redeliver \/ Reply
SpecOwners == Init /\ [][NextOwners]_vars

NextVisits == Tick \/ Receive(VisitCalls) \/ Handle \/ Redeliver \/ Reply
SpecVisits == Init /\ [][NextVisits]_vars

NextConc ==
    \/ Tick
    \/ Reply
    \/ \E p \in Procs, c \in ConcCalls : RegisterSiteFind(p, c)
    \/ \E p \in Procs : RegisterSiteCommit(p)
    \/ \E p \in Procs, c \in ConcCalls : RecordVisitFind(p, c)
    \/ \E p \in Procs : RecordVisitCommit(p)
    \/ \E p \in Procs, c \in ConcCalls : DeleteSiteFind(p, c)
    \/ \E p \in Procs : DeleteSiteCommit(p)
SpecConc == Init /\ [][NextConc]_vars

\* A site whose identifier is the empty string next to a named one.
IdCalls ==
    {RegisterCall(u, NULL, hexA) : u \in {"", "s1"}}
    \cup {RecordCall(u, NullText, NullText, NullText, e) : u \in {"", "s1"}, e \in {NullText, e1}}
    \cup {StatsCall(u, hexA) : u \in {"", "s1"}}
    \cup {UpdateCall(u, hexA, "n1") : u \in {"", "s1"}}
    \cup {DeleteCall(u, hexA) : u \in {"", "s1"}}

NextIds == Tick \/ Receive(IdCalls) \/ Handle \/ Redeliver \/ Reply
SpecIds == Init /\ [][NextIds]_vars

\* The normalizers on their own: every label, user agent and page path below.
LabelInputs ==
    {NullText, <<>>, <<"m","o","b","i","l","e">>, <<" ","T","a","b","l","e","t"," ">>, 
     <<"D","E","S","K","T","O","P">>, <<"o","t","h","e","r">>, 
     <<"p","h","o","n","e">>, <<"i","p","a","d">>}
UserAgentInputs ==
    {NullText, <<>>, <<"x"," ","M","o","b","i","l","e">>, <<"T","A","B","L","E","T">>, 
     <<"a","n"," ","i","P","a","d">>, <<"p","c">>, 
     <<"m","o","b","i","l","e"," ","t","a","b","l","e","t">>, <<" ">>}
PagePathInputs ==
    {NullText, <<>>, 
     <<"h","t","t","p","s",":","/","/","e",".","c","/","b","/","p","?","x","=","1">>, 
     <<"h","t","t","p",":","/","/","h","/","a","#","f">>, <<"a","b">>, 
     <<"/","a","/","b","?","q">>, <<".",".","/","x">>, 
     <<"m","a","i","l","t","o",":","x">>, <<"h","t","t","p",":","/","/">>, 
     <<"/","/","h","/","q">>, <<"f","o","o",":","/","/","h">>, 
     <<"h","t","t","p","x">>, <<"a"," ","b">>}

NormInputs ==
    {[NoCall EXCEPT !.op = "normalize", !.pagePath = pp, !.deviceType = d, !.userAgent = ua] :
        pp \in PagePathInputs, d \in LabelInputs, ua \in UserAgentInputs}

InitNorm ==
    /\ sites = {}
    /\ visits = {}
    /\ page_stats = {}
    /\ siteSeq = 0
    /\ visitSeq = 0
    /\ now = 0
    /\ req \in NormInputs
    /\ pc = [p \in Procs |-> Idle]
    /\ res = NoResult
    /\ prev = NoResult
    /\ hist = [i \in {} |-> NoHist]

\* const pagePath = normalizePagePath(params.pagePath);
\* const deviceType = normalizeDeviceType(params.deviceType, params.userAgent);
Normalize ==
    /\ req.op = "normalize"
    /\ res = NoResult
    /\ res' = [NoResult EXCEPT !.op = "normalize",
                               !.pagePath = normalizePagePath(req.pagePath),
                               !.deviceType = normalizeDeviceType(req.deviceType,
                                                                 req.userAgent)]
    /\ UNCHANGED <<store, now, req, pc, prev, hist>>

NextNorm == Normalize
SpecNorm == InitNorm /\ [][NextNorm]_vars

\* One site whose recordVisit transactions may fail and be sent again.
RetryCalls ==
    {RegisterCall("s1", NULL, hexA), StatsCall("s1", hexA), UpdateCall("s1", hexA, "n1"),
     DeleteCall("s1", hexA)}
    \cup {RecordCall("s1", pp, NullText, NullText, e) :
            pp \in {NullText, <<"a">>}, e \in {NullText, e1, e2}}

NextRetry ==
    Tick \/ Receive(RetryCalls) \/ Handle \/ HandleRecordVisitFails \/ Redeliver \/ Reply
SpecRetry == Init /\ [][NextRetry]_vars

\* Two sites registered again and again, with and without a name and an owner.
RegisterCalls ==
    {RegisterCall(u, n, o) : u \in {"s1", "s2"}, n \in {NULL, "n1"},
                             o \in {NullId, EmptyStr, hexA}}
    \cup {RecordCall("s1", NullText, NullText, NullText, NullText),
          StatsCall("s1", hexA), UpdateCall("s1", hexA, "n2"), DeleteCall("s1", hexA)}

NextRegister == Tick \/ Receive(RegisterCalls) \/ Handle \/ Redeliver \/ Reply
SpecRegister == Init /\ [][NextRegister]_vars

\* Two sites of owners in every form, listed for callers in every form.
ListCalls ==
    {RegisterCall(u, NULL, o) : u \in {"s1", "s2"},
                                o \in {NullId, EmptyStr, hexA, npubA, hexB}}
    \cup {ListCall(c) : c \in {EmptyStr, hexA, HEXA, npubA, hexB, junk}}
    \cup {RecordCall("s1", NullText, NullText, NullText, NullText),
          StatsCall("s1", hexA), UpdateCall("s1", hexA, "n1"), DeleteCall("s1", hexA)}

NextList ==
    Tick \/ Receive(ListCalls) \/ Handle \/ HandleListSites \/ Redeliver \/ Reply
SpecList == Init /\ [][NextList]_vars

\* One site read by one process while another records visits on it.
SnapCalls ==
    {RegisterCall("s1", NULL, hexA), StatsCall("s1", hexA)}
    \cup {RecordCall("s1", pp, NullText, NullText, NullText) : pp \in {NullText, <<"a">>}}

NextSnap ==
    \/ Tick
    \/ NextDay
    \/ Reply
    \/ \E p \in Procs, c \in SnapCalls : RegisterSiteFind(p, c)
    \/ \E p \in Procs : RegisterSiteCommit(p)
    \/ \E p \in Procs, c \in SnapCalls : RecordVisitFind(p, c)
    \/ \E p \in Procs : RecordVisitCommit(p)
    \/ \E p \in Procs, c \in SnapCalls : GetSiteStatsFind(p, c)
    \/ \E p \in Procs : GetSiteStatsRows(p)
    \/ \E p \in Procs : GetSiteStatsVisitsByDay(p)
    \/ \E p \in Procs : GetSiteStatsReturn(p)
SpecSnap == Init /\ [][NextSnap]_vars

\* ------------------------------------------------------------------ claims
TripleOf(r) == <<r.site_id, r.page_path, r.device_type>>
VisitsOf(V, T) == {v \in V : TripleOf(v) = T}
StatsOf(P, T) == {r \in P : TripleOf(r) = T}
StatCount(P, T) ==
    IF StatsOf(P, T) = {} THEN 0 ELSE (CHOOSE r \in StatsOf(P, T) : TRUE).visit_count

\* The step in which the handler of the call in req runs.
Handled(op) == req.op = op /\ res = NoResult /\ res' # NoResult

\* C1: for every (site, page path, device type) triple the page_stats row
\* exists exactly when a visits row of the triple exists, there is one such
\* row, and its visit_count is the number of visits rows of the triple.
C1_StatEqualsVisitRows ==
    \A T \in {TripleOf(v) : v \in visits} \cup {TripleOf(r) : r \in page_stats} :
        /\ VisitsOf(visits, T) # {}
        /\ Cardinality(StatsOf(page_stats, T)) = 1
        /\ StatCount(page_stats, T) = Cardinality(VisitsOf(visits, T))

C1_Witness ==
    /\ res.op = "recordVisit"
    /\ res.error = NoError
    /\ res.visits = 2
    /\ \E r \in page_stats : r.visit_count = 2 /\ Cardinality(VisitsOf(visits, TripleOf(r))) = 2

\* C2: when a recordVisit call with a non-blank event id is delivered again
\* right after it returned, the second delivery returns the visits value (and
\* the outcome) of the first and changes no visits or page_stats row.
C2_SecondDeliverySame ==
    [][(Handled("recordVisit") /\ prev # NoResult
          /\ TrimEventId(req.nostrEventId) # NullText)
       => (/\ res'.visits = prev.visits
           /\ res'.error = prev.error
           /\ visits' = visits
           /\ page_stats' = page_stats)]_vars

C2_Witness ==
    /\ req.op = "recordVisit"
    /\ TrimEventId(req.nostrEventId) # NullText
    /\ prev # NoResult
    /\ prev.error = NoError
    /\ res.op = "recordVisit"
    /\ res.visits = 2
    /\ now > 0

\* C3: no two visits rows, of one site or of two, carry the same non-null
\* nostr_event_id.
C3_EventIdUnique ==
    \A v \in visits, w \in visits :
        (v.nostr_event_id # NullText /\ v.nostr_event_id = w.nostr_event_id) => v = w

\* A recordVisit with an event id that a visit of the other site carries has
\* just returned, next to rows without an id.
C3_Witness ==
    /\ req.op = "recordVisit"
    /\ res.op = "recordVisit"
    /\ res.error = NoError
    /\ \E v \in visits :
         /\ v.nostr_event_id = TrimEventId(req.nostrEventId)
         /\ v.site_id # findSite(sites, req.siteUuid).id
    /\ \E v \in visits : v.nostr_event_id = NullText

\* C4: when every process has returned, the visit_count of a triple of an
\* existing site is the number of normally returned recordVisit calls on the
\* triple that carried no event id plus the number of distinct event ids the
\* others carried (the calls of the model are on one triple per site).
Quiescent == \A p \in Procs : pc[p] = Idle
C4_NoLostNoDouble ==
    Quiescent =>
        \A r \in sites :
            \A T \in DOMAIN hist \cup {TripleOf(x) : x \in page_stats} :
                T[1] = r.id =>
                    StatCount(page_stats, T)
                        = HistOf(hist, T).noId + Cardinality(HistOf(hist, T).ids)

C4_Witness ==
    /\ Quiescent
    /\ \E T \in DOMAIN hist :
         /\ hist[T].raced
         /\ hist[T].dup
         /\ hist[T].noId = 1
         /\ StatCount(page_stats, T) = 2
         /\ \E r \in sites : r.id = T[1]

\* C5: a recordVisit on an existing site whose event id is null or on no
\* visits row adds exactly one visits row, of the normalized triple, and
\* returns the triple's previous visit_count plus one (1 without a row),
\* which is the visit_count it leaves.
C5_CountsOne ==
    [][(Handled("recordVisit") /\ findSite(sites, req.siteUuid) # NoSite
          /\ ~EventIdTaken(visits, TrimEventId(req.nostrEventId)))
       => LET T == <<findSite(sites, req.siteUuid).id, normalizePagePath(req.pagePath),
                     normalizeDeviceType(req.deviceType, req.userAgent)>>
          IN  /\ res'.error = NoError
              /\ visits \subseteq visits'
              /\ Cardinality(visits' \ visits) = 1
              /\ \A v \in visits' \ visits : TripleOf(v) = T
              /\ res'.visits = StatCount(page_stats, T) + 1
              /\ StatCount(page_stats', T) = res'.visits]_vars

C5_Witness ==
    /\ req.op = "recordVisit"
    /\ TrimEventId(req.nostrEventId) = NullText
    /\ res.op = "recordVisit"
    /\ res.visits = 2
    /\ Cardinality(visits) = 2
    /\ prev = NoResult

\* The messages of the errors that refuse a caller.
AuthErrors == {"Owner npub mismatch", "Unable to validate owner pubkey",
               "Caller pubkey does not match site owner"}
OwnerGated == {"getSiteStats", "updateSite", "deleteSite"}
HandledGated == req.op \in OwnerGated /\ res = NoResult /\ res' # NoResult

\* C6: once a site's owner_npub is a non-empty value, no registerSite call,
\* whatever owner it carries, leaves the site with another owner_npub.
C6_OwnerNeverReplaced ==
    [][Handled("registerSite")
       => \A r \in sites :
            TruthyId(r.owner_npub)
            => \A x \in sites' : x.site_uuid = r.site_uuid => x.owner_npub = r.owner_npub]_vars

C8_OwnerlessRefused ==
    [][(HandledGated /\ findSite(sites, req.siteUuid) # NoSite
          /\ ~TruthyId(findSite(sites, req.siteUuid).owner_npub))
       => (res'.error \in AuthErrors /\ UNCHANGED store)]_vars

\* C9: getSiteStats, updateSite and deleteSite on a site with a stored owner
\* proceed exactly when the stored owner and the caller both normalize and to
\* the same key; a refused call fails with an authorization error and leaves
\* the store unchanged.
C9_CanonicalOwnerDecides ==
    [][(HandledGated /\ findSite(sites, req.siteUuid) # NoSite
          /\ TruthyId(findSite(sites, req.siteUuid).owner_npub))
       => LET ownerHex == normalizeHexPubkey(findSite(sites, req.siteUuid).owner_npub)
              callerHex == normalizeHexPubkey(req.owner)
              match == ownerHex # NullId /\ callerHex # NullId /\ ownerHex = callerHex
          IN  /\ (res'.error = NoError) <=> match
              /\ ~match => (res'.error \in AuthErrors /\ UNCHANGED store)]_vars

\* C10: a deleteSite that returns removes the row of the site and every
\* visits and page_stats row of its id and nothing else; no other step of a
\* handler removes a visits row or the page_stats row of a triple.
C10_CascadeOnly ==
    [][/\ (Handled("deleteSite") /\ res'.error = NoError)
          => LET site == findSite(sites, req.siteUuid)
             IN  /\ res'.deleted
                 /\ sites' = sites \ {site}
                 /\ visits' = {v \in visits : v.site_id # site.id}
                 /\ page_stats' = {r \in page_stats : r.site_id # site.id}
       /\ ((\E v \in visits : v \notin visits')
           \/ (\E r \in page_stats : StatsOf(page_stats', TripleOf(r)) = {}))
          => (Handled("deleteSite") /\ res'.error = NoError)]_vars

\* A site with a visit has just been deleted; the other site keeps its own.
C10_Witness ==
    /\ req.op = "deleteSite"
    /\ res.op = "deleteSite"
    /\ res.deleted
    /\ visitSeq = 2
    /\ Cardinality(visits) = 1
    /\ Cardinality(page_stats) = 1
    /\ Cardinality(sites) = 1
    /\ \A v \in visits : \E r \in sites : r.id = v.site_id

\* C11: a getSiteStats that returns statistics returns a totalVisits that is
\* the sum of visit_count over the page_stats rows of the site and the number
\* of visits rows of the site.
C11_TotalsMatchRows ==
    [][(Handled("getSiteStats") /\ res'.error = NoError)
       => LET site == findSite(sites, req.siteUuid)
          IN  /\ res'.totalVisits = SumVisitCount({r \in page_stats : r.site_id = site.id})
              /\ res'.totalVisits = Cardinality({v \in visits : v.site_id = site.id})]_vars

C11_Witness ==
    /\ res.op = "getSiteStats"
    /\ res.error = NoError
    /\ res.totalVisits = 2
    /\ Cardinality(page_stats) = 1
    /\ Cardinality(visits) = 2

RECURSIVE SumDays(_)
SumDays(days) == IF days = <<>> THEN 0 ELSE days[1].visits + SumDays(Tail(days))

DaysOfPage(pageVisitsByDay, pagePath) ==
    IF \E i \in DOMAIN pageVisitsByDay : pageVisitsByDay[i].page = pagePath
    THEN (CHOOSE e \in {pageVisitsByDay[i] : i \in DOMAIN pageVisitsByDay} :
             e.page = pagePath).days
    ELSE <<>>

\* C12: every result getSiteStats returns is of one snapshot: totalVisits
\* (from page_stats) is the sum of the visitsByDay counts (from visits), and
\* each page's totalVisits is the sum of its pageVisitsByDay counts.
C12_OneSnapshot ==
    (res.op = "getSiteStats" /\ res.error = NoError)
    => /\ res.totalVisits = SumDays(res.visitsByDay)
       /\ \A i \in DOMAIN res.pageList :
            res.pageList[i].totalVisits
                = SumDays(DaysOfPage(res.pageVisitsByDay, res.pageList[i].page))

\* C13: recordVisit, getSiteStats, updateSite and deleteSite with a site
\* identifier that no sites row carries throw "Site not found" and leave
\* sites, visits and page_stats as they are.
C13_NotFoundNoWrite ==
    [][(req.op \in {"recordVisit", "getSiteStats", "updateSite", "deleteSite"}
          /\ res = NoResult /\ res' # NoResult
          /\ ~\E r \in sites : r.site_uuid = req.siteUuid)
       => (res'.error = "Site not found" /\ UNCHANGED store)]_vars

\* A recordVisit for an unknown site has been refused next to a site that
\* has a visit.
C13_Witness ==
    /\ req.op = "recordVisit"
    /\ res.op = "recordVisit"
    /\ res.error = "Site not found"
    /\ Cardinality(sites) = 1
    /\ Cardinality(visits) = 1
    /\ Cardinality(page_stats) = 1

\* C14: registerSite and recordVisit with the empty string as site identifier
\* fail and write no sites, visits or page_stats row.
C14_EmptyIdRejected ==
    [][(req.op \in {"registerSite", "recordVisit"} /\ req.siteUuid = ""
          /\ res = NoResult /\ res' # NoResult)
       => (res'.error # NoError /\ UNCHANGED store)]_vars

\* C15: normalizeDeviceType returns one of the four device types; the
\* trimmed lower-cased label when it is one of them, whatever the user agent;
\* otherwise mobile for a user agent containing "mobile", else tablet for one
\* containing "tablet" or "ipad", else desktop for a non-empty one, else other.
C15_DeviceTypeCascade ==
    res.op = "normalize"
    => LET label == toLowerCase(trim(OrEmpty(req.deviceType)))
           agent == toLowerCase(OrEmpty(req.userAgent))
           labelled == label \in {desktop, mobile, tablet, other}
       IN  /\ res.deviceType \in {desktop, mobile, tablet, other}
           /\ labelled => res.deviceType = label
           /\ (~labelled /\ includes(agent, mobile)) => res.deviceType = mobile
           /\ (~labelled /\ ~includes(agent, mobile)
                 /\ (includes(agent, tablet) \/ includes(agent, ipad)))
              => res.deviceType = tablet
           /\ (~labelled /\ ~includes(agent, mobile) /\ ~includes(agent, tablet)
                 /\ ~includes(agent, ipad) /\ agent # <<>>)
              => res.deviceType = desktop
           /\ (~labelled /\ agent = <<>>) => res.deviceType = other

\* The label says tablet while the user agent says mobile.
C15_Witness ==
    /\ res.op = "normalize"
    /\ trim(req.deviceType) # req.deviceType
    /\ res.deviceType = tablet
    /\ includes(toLowerCase(req.userAgent), mobile)

\* C16: normalizePagePath returns a text that begins with "/"; "/" for a
\* missing or empty input; the path of a full URL without host, query or
\* fragment.
C16_LeadingSlash ==
    res.op = "normalize"
    => /\ res.pagePath # <<>>
       /\ res.pagePath[1] = "/"
       /\ req.pagePath \in {NullText, <<>>} => res.pagePath = <<"/">>
       /\ (startsWith(req.pagePath, Http) /\ res.pagePath # <<"/">> \o req.pagePath)
          => (\A i \in DOMAIN res.pagePath : res.pagePath[i] \notin {"?", "#", ":"})

\* C17: a recordVisit on an existing site whose trimmed event id is on a
\* visits row (of any site, page or device) returns normally, adds no visits
\* row, changes no page_stats row, and returns the visit_count and last_seen
\* of the page_stats row of its own triple, or 0 and null without such a row.
C17_DuplicateReturnsCurrent ==
    [][(Handled("recordVisit") /\ findSite(sites, req.siteUuid) # NoSite
          /\ EventIdTaken(visits, TrimEventId(req.nostrEventId)))
       => LET T == <<findSite(sites, req.siteUuid).id, normalizePagePath(req.pagePath),
                     normalizeDeviceType(req.deviceType, req.userAgent)>>
          IN  /\ res'.error = NoError
              /\ UNCHANGED store
              /\ StatsOf(page_stats, T) = {}
                 => (res'.visits = 0 /\ res'.lastSeen = NullTime)
              /\ \A r \in StatsOf(page_stats, T) :
                    res'.visits = r.visit_count /\ res'.lastSeen = r.last_seen]_vars

\* The event id of a visit to another page comes again for a page without a
\* page_stats row.
C17_Witness ==
    /\ req.op = "recordVisit"
    /\ res.op = "recordVisit"
    /\ res.error = NoError
    /\ res.visits = 0
    /\ res.lastSeen = NullTime
    /\ \E v \in visits : v.nostr_event_id = TrimEventId(req.nostrEventId)
    /\ \E r \in page_stats : r.device_type = res.deviceType /\ r.page_path # res.pagePath

PageRows(P, siteId, pagePath) == {r \in P : r.site_id = siteId /\ r.page_path = pagePath}

\* C18: in the result of getSiteStats the lastSeen of a page is the greatest
\* last_seen of the page_stats rows of the page.
C18_LastSeenIsMax ==
    [][(Handled("getSiteStats") /\ res'.error = NoError)
       => \A i \in DOMAIN res'.pageList :
            LET rows == PageRows(page_stats, findSite(sites, req.siteUuid).id,
                                 res'.pageList[i].page)
            IN  /\ \E r \in rows : r.last_seen = res'.pageList[i].lastSeen
                /\ \A r \in rows : r.last_seen <= res'.pageList[i].lastSeen]_vars

\* C19: in the result of getSiteStats every page path with a page_stats row
\* of the site has exactly one entry; the entry's totalVisits is the sum of
\* its four device counts; each device count is the visit_count of the row of
\* the page and device, 0 without a row; pages counts the distinct paths.
C19_PagesBreakdown ==
    [][(Handled("getSiteStats") /\ res'.error = NoError)
       => LET siteId == findSite(sites, req.siteUuid).id
              paths == {r.page_path : r \in {x \in page_stats : x.site_id = siteId}}
              list == res'.pageList
          IN  /\ {list[i].page : i \in DOMAIN list} = paths
              /\ \A i \in DOMAIN list, j \in DOMAIN list : list[i].page = list[j].page => i = j
              /\ res'.pages = Cardinality(paths)
              /\ \A i \in DOMAIN list :
                   /\ DOMAIN list[i].devices = {desktop, mobile, tablet, other}
                   /\ list[i].totalVisits
                        = list[i].devices[desktop] + list[i].devices[mobile]
                          + list[i].devices[tablet] + list[i].devices[other]
                   /\ \A d \in DOMAIN list[i].devices :
                        list[i].devices[d]
                            = StatCount(page_stats, <<siteId, list[i].page, d>>)]_vars

\* A page visited from two device types, one visit each.
C19_Witness ==
    /\ res.op = "getSiteStats"
    /\ res.error = NoError
    /\ res.pages = 1
    /\ Len(res.pageList) = 1
    /\ res.pageList[1].totalVisits = 2
    /\ res.pageList[1].devices[mobile] = 1
    /\ res.pageList[1].devices[other] = 1
    /\ res.pageList[1].devices[desktop] = 0

\* C20: a recordVisit whose transaction fails after the visits insert leaves
\* no visits row and no page_stats change behind, and the same call sent
\* again with its event id, when it returns normally, has exactly one visits
\* row of that id and a visit_count one above the count before.
C20_AllOrNothing ==
    [][/\ (Handled("recordVisit") /\ res'.error = IoError) => UNCHANGED store
       /\ (Handled("recordVisit") /\ prev.error = IoError /\ res'.error = NoError
             /\ TrimEventId(req.nostrEventId) # NullText)
          => LET T == <<findSite(sites, req.siteUuid).id, normalizePagePath(req.pagePath),
                        normalizeDeviceType(req.deviceType, req.userAgent)>>
             IN  /\ Cardinality({v \in visits' :
                                   v.nostr_event_id = TrimEventId(req.nostrEventId)}) = 1
                 /\ StatCount(page_stats', T) = StatCount(page_stats, T) + 1
                 /\ res'.visits = StatCount(page_stats', T)
                 /\ StatCount(page_stats', T) = Cardinality(VisitsOf(visits', T))]_vars

\* The second visit of a page failed and was sent again with its event id.
C20_Witness ==
    /\ req.op = "recordVisit"
    /\ TrimEventId(req.nostrEventId) # NullText
    /\ prev.error = IoError
    /\ res.op = "recordVisit"
    /\ res.error = NoError
    /\ res.visits = 2
    /\ Cardinality(visits) = 2

\* C21: a registerSite that returns for a site that exists keeps the row's
\* id, site_uuid, secret_token and created_at, keeps the name when the call
\* has no name and the owner when it has no owner, leaves every other sites
\* row and the number of rows as they are, and writes no visits or
\* page_stats row.
C21_RegisterKeepsRecord ==
    [][(Handled("registerSite") /\ res'.error = NoError
          /\ findSite(sites, req.siteUuid) # NoSite)
       => LET existing == findSite(sites, req.siteUuid)
              after == res'.site
          IN  /\ after.id = existing.id
              /\ after.site_uuid = existing.site_uuid
              /\ after.secret_token = existing.secret_token
              /\ after.created_at = existing.created_at
              /\ req.name = NULL => after.name = existing.name
              /\ req.owner = NullId => after.owner_npub = existing.owner_npub
              /\ sites' = (sites \ {existing}) \cup {after}
              /\ Cardinality(sites') = Cardinality(sites)
              /\ UNCHANGED <<visits, page_stats, siteSeq, visitSeq>>]_vars

\* A site with a name, an owner and a visit has been registered again with
\* neither a name nor an owner, next to another site.
C21_Witness ==
    /\ req.op = "registerSite"
    /\ req.name = NULL
    /\ req.owner = NullId
    /\ res.op = "registerSite"
    /\ res.error = NoError
    /\ res.site.name = "n1"
    /\ res.site.owner_npub = hexA
    /\ res.site.created_at < res.site.updated_at
    /\ Cardinality(sites) = 2
    /\ \E v \in visits : v.site_id = res.site.id

\* C22: an updateSite that returns changes the name and updated_at of the
\* site's row and nothing else in sites, visits and page_stats; without a
\* name field it changes nothing and returns the row as it is.
C22_UpdateNameOnly ==
    [][(Handled("updateSite") /\ res'.error = NoError)
       => LET existing == findSite(sites, req.siteUuid)
          IN  /\ UNCHANGED <<visits, page_stats, siteSeq, visitSeq>>
              /\ req.name = Absent => (sites' = sites /\ res'.site = existing)
              /\ req.name # Absent
                 => (/\ res'.site = [existing EXCEPT !.name = req.name, !.updated_at = now]
                     /\ sites' = (sites \ {existing}) \cup {res'.site})]_vars

\* The name of a site with a visit has been replaced by its owner, who gave
\* the key in its npub form.
C22_Witness ==
    /\ req.op = "updateSite"
    /\ req.name = "n2"
    /\ req.owner = npubA
    /\ res.op = "updateSite"
    /\ res.error = NoError
    /\ res.site.name = "n2"
    /\ res.site.owner_npub = hexA
    /\ res.site.created_at < res.site.updated_at
    /\ visits # {}

ListedRows(list) == {list[i] : i \in DOMAIN list}
ListsExactly ==
    /\ res'.error = NoError
    /\ ListedRows(res'.list) = {r \in sites : r.owner_npub = req.owner}
    /\ Len(res'.list) = Cardinality(ListedRows(res'.list))
    /\ \A i \in DOMAIN res'.list, j \in DOMAIN res'.list :
          i < j => res'.list[i].created_at >= res'.list[j].created_at
    /\ UNCHANGED store

\* C23 as stated: listSitesForNpub returns exactly the sites rows whose
\* owner_npub is the given string, newest first, and never a row without an
\* owner.
C23_ListExactNoOwnerless ==
    [][Handled("listSites")
       => (ListsExactly /\ \A r \in ListedRows(res'.list) : TruthyId(r.owner_npub))]_vars

\* C23, amended: listSitesForNpub returns exactly the sites rows whose
\* owner_npub is the given string, each once, newest first; a row whose
\* owner_npub is NULL is never returned, and a row whose owner_npub is the
\* empty string is returned exactly when the given string is empty.
C23_ListExact ==
    [][Handled("listSites")
       => (/\ ListsExactly
           /\ \A r \in ListedRows(res'.list) : r.owner_npub # NullId
           /\ \A r \in sites :
                r.owner_npub = EmptyStr
                => (r \in ListedRows(res'.list) <=> req.owner = EmptyStr))]_vars

\* Two sites of one owner string, created at different times, are listed.
C23_Witness ==
    /\ req.op = "listSites"
    /\ res.op = "listSites"
    /\ Len(res.list) = 2
    /\ res.list[1].created_at > res.list[2].created_at
    /\ res.list[1].owner_npub = npubA

RefIntegrity(S, V, P) ==
    /\ \A v \in V : \E r \in S : r.id = v.site_id
    /\ \A x \in P : \E r \in S : r.id = x.site_id

\* The step in which process p runs the transaction of a recordVisit whose
\* site has been deleted since its lookup.
StaleCommit(p) ==
    /\ pc[p].op = "recordVisit"
    /\ pc'[p] = Idle
    /\ ~\E r \in sites : r.id = pc[p].siteId

\* C24 as stated: every visits and page_stats row names an existing site, and
\* a recordVisit whose site was deleted between its lookup and its
\* transaction fails and writes no visits or page_stats row.
C24_StaleVisitFails ==
    [][/\ RefIntegrity(sites', visits', page_stats')
       /\ \A p \in Procs :
            StaleCommit(p)
            => (res'.error # NoError /\ visits' = visits /\ page_stats' = page_stats)]_vars

\* C24, amended: every visits and page_stats row names an existing site, and
\* a recordVisit whose site was deleted between its lookup and its
\* transaction writes no visits or page_stats row; it fails with the foreign
\* key error unless its event id is already on a visits row, in which case it
\* returns the duplicate's result.
C24_StaleVisitWritesNothing ==
    [][/\ RefIntegrity(sites', visits', page_stats')
       /\ \A p \in Procs :
            StaleCommit(p)
            => (/\ visits' = visits
                /\ page_stats' = page_stats
                /\ res'.op = "recordVisit"
                /\ IF EventIdTaken(visits, pc[p].nostrEventId)
                   THEN res'.error = NoError /\ res'.visits = 0
                   ELSE res'.error = "FOREIGN KEY constraint failed")]_vars

\* A recordVisit has failed on the foreign key while the site, registered
\* anew, exists under another id.
C24_Witness ==
    /\ res.op = "recordVisit"
    /\ res.error = "FOREIGN KEY constraint failed"
    /\ siteSeq = 2
    /\ Cardinality(sites) = 1
    /\ Quiescent

\* C25: no two sites rows carry the same site_uuid, also when two
\* registerSite calls for a new identifier both look it up before either
\* inserts.
C25_OneSitePerUuid ==
    \A r \in sites, q \in sites : r.site_uuid = q.site_uuid => r = q

\* The second of two racing registrations has been refused by the UNIQUE
\* constraint.
C25_Witness ==
    /\ res.op = "registerSite"
    /\ res.error = "UNIQUE constraint failed: sites.site_uuid"
    /\ Cardinality(sites) = 1
    /\ siteSeq = 1

====
